---- MODULE Spec2Model ----
(***************************************************************************)
(* Model of xfer_remux_mkv.py: the xfer_ended callback, the output path    *)
(* resolver (fetch_outfile), the name sanitiser (get_outname) and the      *)
(* ffmpeg executor (do_ffmpeg).                                            *)
(*                                                                         *)
(* Text is a sequence of one-character strings.  A path is a record        *)
(* [dir |-> <<component, ...>>, name |-> text].                            *)
(***************************************************************************)
EXTENDS Integers, Sequences, FiniteSets, TLC

VARIABLES
    config,      \* plugin options: ffmpeg, pattern, keep, overwrite, debug
    onPath,      \* TRUE iff an executable named ffmpeg is on the PATH
    srcName,     \* basename of the transferred file
    srcKind,     \* what the transferred file's path references
    processed,   \* what ../processed references
    writable,    \* TRUE iff entries may be created next to the input directory
    outputs,     \* basenames of the files present in ../processed
    pc,          \* position of xfer_ended_signal_cb
    local_filename, \* path given by the xfer infolist
    ffmpeg,      \* value returned by get_ffmpeg ("" while there is none)
    outfile,     \* value returned by fetch_outfile (NoPath while there is none)
    err,         \* exception raised in this invocation ("none" if none)
    result,      \* value returned by the callback (NoResult while there is none)
    child,       \* argument vector of the started ffmpeg process (NoChild if none)
    exitStatus,  \* exit status of the ffmpeg process (NoResult while there is none)
    created,     \* TRUE iff this invocation created ../processed
    unlinks,     \* number of times this invocation deleted the source file
    printed,     \* messages printed by this invocation, in order
    invocations, \* number of xfer_ended signals delivered
    name,        \* argument of a direct call of get_outname
    called,      \* TRUE iff get_outname has been called directly
    outname      \* value returned by that call

vars == <<config, onPath, srcName, srcKind, processed, writable, outputs, pc,
          local_filename, ffmpeg, outfile, err, result, child, exitStatus,
          created, unlinks, printed, invocations, name, called, outname>>

(***************************************************************************)
(* Bounds                                                                  *)
(***************************************************************************)
MaxLen == 5           \* longest generated middle part of a basename
MaxInvocations == 2   \* signals delivered in one behaviour

(***************************************************************************)
(* Text helpers                                                            *)
(***************************************************************************)
EndsWith(s, suf) ==
    /\ Len(s) >= Len(suf)
    /\ SubSeq(s, Len(s) - Len(suf) + 1, Len(s)) = suf

\* str.split(sep) for a one-character separator
RECURSIVE SplitFrom(_, _, _, _)
SplitFrom(s, sep, i, cur) ==
    IF i > Len(s) THEN <<cur>>
    ELSE IF s[i] = sep THEN <<cur>> \o SplitFrom(s, sep, i + 1, <<>>)
    ELSE SplitFrom(s, sep, i + 1, Append(cur, s[i]))

Split(s, sep) == SplitFrom(s, sep, 1, <<>>)

\* "".join(chunks)
RECURSIVE Join(_)
Join(chunks) ==
    IF chunks = <<>> THEN <<>> ELSE Head(chunks) \o Join(Tail(chunks))

\* re.sub of a character class by ""
DeleteChars(s, class) ==
    LET Keep(c) == c \notin class IN SelectSeq(s, Keep)

\* str.replace(old, new): leftmost, non-overlapping occurrences
RECURSIVE ReplaceFrom(_, _, _, _)
ReplaceFrom(s, old, new, i) ==
    IF i > Len(s) THEN <<>>
    ELSE IF i + Len(old) - 1 <= Len(s) /\ SubSeq(s, i, i + Len(old) - 1) = old
         THEN new \o ReplaceFrom(s, old, new, i + Len(old))
         ELSE <<s[i]>> \o ReplaceFrom(s, old, new, i + 1)

Replace(s, old, new) == ReplaceFrom(s, old, new, 1)

(***************************************************************************)
(* Regular expressions of the script                                       *)
(***************************************************************************)
\* \s of a str pattern, restricted to the ASCII blanks
Whitespace == {" ", "\t", "\n", "\r"}

\* a character class without the blanks
danger_no_blank == {"~", "$", "{", "}", "!", "?", "|", ":"}

\* danger = re.compile(r"[\~\$\{\}\!\?\|\:\s]")
danger == {"~", "$", "{", "}", "!", "?", "|", ":"} \cup Whitespace

\* index of the last "_" of the run of "_" starting at i (i - 1 if none)
RECURSIVE UnderscoreRun(_, _)
UnderscoreRun(s, i) ==
    IF i <= Len(s) /\ s[i] = "_" THEN UnderscoreRun(s, i + 1) ELSE i - 1

\* index of the first "]" at or after j that is reached over non-blank
\* characters only (0 if none): the lazy \S+? followed by \]
RECURSIVE ClosingBracket(_, _)
ClosingBracket(s, j) ==
    IF j > Len(s) THEN 0
    ELSE IF s[j] = "]" THEN j
    ELSE IF s[j] \in Whitespace THEN 0
    ELSE ClosingBracket(s, j + 1)

\* groupnames = re.compile(r"\_*\[\S+?\]\_*") matched at position i:
\* index of the last character of the match, 0 if there is no match at i
GroupnamesMatchEnd(s, i) ==
    LET b == UnderscoreRun(s, i) + 1
    IN  IF b > Len(s) \/ s[b] # "[" THEN 0
        ELSE IF b + 1 > Len(s) \/ s[b + 1] \in Whitespace THEN 0
        ELSE LET c == ClosingBracket(s, b + 2)
             IN  IF c = 0 THEN 0 ELSE UnderscoreRun(s, c + 1)

RECURSIVE SubGroupnamesFrom(_, _)
SubGroupnamesFrom(s, i) ==
    IF i > Len(s) THEN <<>>
    ELSE LET e == GroupnamesMatchEnd(s, i)
         IN  IF e = 0 THEN <<s[i]>> \o SubGroupnamesFrom(s, i + 1)
             ELSE SubGroupnamesFrom(s, e + 1)

\* a removal that demands at least one "_" in front of the tag
RECURSIVE SubGroupnamesUnderscored(_, _)
SubGroupnamesUnderscored(s, i) ==
    IF i > Len(s) THEN <<>>
    ELSE LET e == IF s[i] = "_" THEN GroupnamesMatchEnd(s, i) ELSE 0
         IN  IF e = 0 THEN <<s[i]>> \o SubGroupnamesUnderscored(s, i + 1)
             ELSE SubGroupnamesUnderscored(s, e + 1)

SubGroupnamesMutant(s) == SubGroupnamesUnderscored(s, 1)

\* re.sub(groupnames, "", s)
SubGroupnames(s) == SubGroupnamesFrom(s, 1)

\* re.compile(pattern) for the override patterns of the model: a pattern
\* that is one literal character matches exactly that character
re_compile(pattern) == {pattern}

mp4 == <<".", "m", "p", "4">>
mkv == <<".", "m", "k", "v">>

\* a name sanitiser that keeps the first dot-separated chunk
get_outname_keep_first(nm, pattern) ==
    LET chunks == Split(nm, ".")
        spliced_name == Join(SubSeq(chunks, 1, Len(chunks) - 1)) \o mp4
        replacements == IF pattern # "" THEN re_compile(pattern) ELSE danger
        safe == DeleteChars(spliced_name, replacements)
    IN  Replace(SubGroupnames(safe), <<"_", "-", "_">>, <<"-">>)

get_outname(nm, pattern) ==
    LET chunks == Tail(Split(nm, "."))
        spliced_name == Join(SubSeq(chunks, 1, Len(chunks) - 1)) \o mp4
        replacements == IF pattern # "" THEN re_compile(pattern) ELSE danger
        safe == DeleteChars(spliced_name, replacements)
    IN  Replace(SubGroupnames(safe), <<"_", "-", "_">>, <<"-">>)

(***************************************************************************)
(* Host collaborators (WeeChat, pathlib, shutil)                           *)
(***************************************************************************)
\* weechat.config_string_to_boolean
config_string_to_boolean(text) ==
    IF text \in {"on", "yes", "y", "true", "t", "1"} THEN 1 ELSE 0

\* weechat_config_get_boolean(config_key)
weechat_config_get_boolean(config_key) ==
    config_string_to_boolean(config[config_key])

\* shutil.which("ffmpeg"); "" stands for None
which_ffmpeg == IF onPath THEN "/usr/bin/ffmpeg" ELSE ""

\* executables that exist on the system
Executables == IF onPath THEN {"/usr/bin/ffmpeg"} ELSE {}

\* Path.is_file(): follows symbolic links
is_file(kind) == kind \in {"file", "symlink"}

\* the transfer directory and a symbolic link to it
DownloadDir == <<"dl", "in">>
LinkDir == <<"link">>

\* Path.resolve() of a directory
resolve(dir) == IF dir = LinkDir THEN DownloadDir ELSE dir

\* Path.parent of a directory
parent(dir) == SubSeq(dir, 1, Len(dir) - 1)

ProcessedDir == <<"dl", "processed">>

NoPath == [dir |-> <<>>, name |-> <<>>]
NoResult == -1
NoChild == [exe |-> "", input |-> NoPath, output |-> NoPath, flags |-> <<>>]

(***************************************************************************)
(* get_ffmpeg, fetch_outfile, do_ffmpeg                                    *)
(***************************************************************************)
\* get_ffmpeg(): [err, value]
get_ffmpeg ==
    LET custom_ffmpeg_path == config["ffmpeg"]
        found == IF custom_ffmpeg_path # "" THEN custom_ffmpeg_path
                 ELSE which_ffmpeg
    IN  IF found = "" THEN [err |-> "EnvironmentError", value |-> ""]
        ELSE [err |-> "none", value |-> found]

\* outdir.mkdir(exist_ok=True) on the state st of the directory entry:
\* [err, state, created]
mkdir_exist_ok(st, canWrite) ==
    IF st = "dir" THEN [err |-> "none", state |-> "dir", created |-> FALSE]
    ELSE IF st = "file"
         THEN [err |-> "FileExistsError", state |-> st, created |-> FALSE]
    ELSE IF ~canWrite
         THEN [err |-> "PermissionError", state |-> st, created |-> FALSE]
    ELSE [err |-> "none", state |-> "dir", created |-> TRUE]

\* a resolver that tests the extension before the kind of the input
fetch_outfile_ext_first(infile, kind, st, canWrite, pattern) ==
    IF ~EndsWith(infile.name, mkv)
    THEN [err |-> "ValueError:not_mkv", outfile |-> NoPath,
          state |-> st, created |-> FALSE]
    ELSE IF ~is_file(kind)
    THEN [err |-> "ValueError:not_a_file", outfile |-> NoPath,
          state |-> st, created |-> FALSE]
    ELSE LET indir == resolve(infile.dir)
             outdir == parent(indir) \o <<"processed">>
             made == mkdir_exist_ok(st, canWrite)
         IN  IF made.err # "none"
             THEN [err |-> made.err, outfile |-> NoPath,
                   state |-> made.state, created |-> FALSE]
             ELSE [err |-> "none",
                   outfile |-> [dir |-> outdir,
                                name |-> get_outname(infile.name, pattern)],
                   state |-> made.state, created |-> made.created]

\* a resolver that does not create the output directory
fetch_outfile_no_mkdir(infile, kind, st, canWrite, pattern) ==
    IF ~is_file(kind)
    THEN [err |-> "ValueError:not_a_file", outfile |-> NoPath,
          state |-> st, created |-> FALSE]
    ELSE IF ~EndsWith(infile.name, mkv)
    THEN [err |-> "ValueError:not_mkv", outfile |-> NoPath,
          state |-> st, created |-> FALSE]
    ELSE [err |-> "none",
          outfile |-> [dir |-> parent(resolve(infile.dir)) \o <<"processed">>,
                       name |-> get_outname(infile.name, pattern)],
          state |-> st, created |-> FALSE]

\* fetch_outfile(infile): [err, outfile, state of ../processed, created]
fetch_outfile(infile, kind, st, canWrite, pattern) ==
    IF ~is_file(kind)
    THEN [err |-> "ValueError:not_a_file", outfile |-> NoPath,
          state |-> st, created |-> FALSE]
    ELSE IF ~EndsWith(infile.name, mkv)
    THEN [err |-> "ValueError:not_mkv", outfile |-> NoPath,
          state |-> st, created |-> FALSE]
    ELSE LET indir == resolve(infile.dir)
             outdir == parent(indir) \o <<"processed">>
             made == mkdir_exist_ok(st, canWrite)
         IN  IF made.err # "none"
             THEN [err |-> made.err, outfile |-> NoPath,
                   state |-> made.state, created |-> FALSE]
             ELSE [err |-> "none",
                   outfile |-> [dir |-> outdir,
                                name |-> get_outname(infile.name, pattern)],
                   state |-> made.state, created |-> made.created]

\* the argument vector built by do_ffmpeg
ffmpeg_args(exe, infile, out) ==
    [exe |-> exe, input |-> infile, output |-> out,
     flags |-> <<"-i", "-c", "copy", "-strict", "-2", "-c:s", "mov_text">>
               \o (IF weechat_config_get_boolean("overwrite") # 0
                   THEN <<"-y">> ELSE <<>>)]

HasFlag(args, f) == \E i \in 1..Len(args.flags) : args.flags[i] = f

(***************************************************************************)
(* Inputs                                                                  *)
(***************************************************************************)
\* characters of the generated basenames: a letter, the characters the
\* regular expressions and the split look at, a blank and a danger symbol
Alphabet == {"a", "_", "-", "[", "]", " ", ".", "$"}

Texts == UNION {[1..n -> Alphabet] : n \in 0..MaxLen}

\* the basename of the documented example
ExampleName ==
    <<"M", "y", "_", "S", "h", "o", "w", "_", "[", "G", "R", "O", "U", "P",
      "]", "_", "-", "_", "S", "0", "1", "E", "0", "1", ".", "m", "k", "v">>

\* WeeChat stores a transfer as <nick>.<filename>
NameInputs ==
    {<<"n", ".">> \o body \o mkv : body \in Texts}
        \cup {ExampleName, <<"a", ":", "$", "b">>, <<"n", ".", "~", "{", "}",
              "!", "?", "|", "\t", ".", "m", "k", "v">>}

\* values of the "pattern" option: unset, or one literal character
Patterns == {"", "a", "4"}

\* basenames of the transferred file
HandlerNames ==
    { <<"n", ".", "a", ".", "m", "k", "v">>,
      <<"n", ".", "a", ".", "t", "x", "t">>,
      <<"n", ".", "[", "g", "]", "_", "a", " ", "4", ".", "m", "k", "v">>,
      ExampleName }

FfmpegPaths == {"", "/usr/bin/ffmpeg", "/opt/missing/ffmpeg"}
Booleans == {"true", "false"}
Kinds == {"file", "symlink", "dir", "missing"}
DirStates == {"missing", "dir", "file"}
ExitStatuses == {0, 1}

Configs ==
    [ffmpeg : FfmpegPaths, pattern : Patterns, keep : Booleans,
     overwrite : Booleans, debug : Booleans]

\* OPTIONS
DefaultConfig ==
    [ffmpeg |-> "", pattern |-> "", keep |-> "false", overwrite |-> "true",
     debug |-> "false"]

(***************************************************************************)
(* Initial states                                                          *)
(***************************************************************************)
NoInvocation ==
    /\ pc = "idle"
    /\ local_filename = NoPath
    /\ ffmpeg = ""
    /\ outfile = NoPath
    /\ err = "none"
    /\ result = NoResult
    /\ child = NoChild
    /\ exitStatus = NoResult
    /\ created = FALSE
    /\ unlinks = 0
    /\ printed = <<>>
    /\ invocations = 0

Init ==
    /\ config \in Configs
    /\ onPath \in BOOLEAN
    /\ srcName \in HandlerNames
    /\ srcKind \in Kinds
    /\ processed \in DirStates
    /\ writable \in BOOLEAN
    /\ outputs = {}
    /\ NoInvocation
    /\ name = <<>>
    /\ called = FALSE
    /\ outname = <<>>

InitName ==
    /\ config \in {[DefaultConfig EXCEPT !.pattern = p] : p \in Patterns}
    /\ onPath = TRUE
    /\ srcName = <<>>
    /\ srcKind = "missing"
    /\ processed = "missing"
    /\ writable = TRUE
    /\ outputs = {}
    /\ NoInvocation
    /\ name \in NameInputs
    /\ called = FALSE
    /\ outname = <<>>

(***************************************************************************)
(* Actions                                                                 *)
(***************************************************************************)
fsVars == <<srcName, srcKind, processed, writable, outputs>>
nameVars == <<name, called, outname>>
hostVars == <<config, onPath>>

\* a direct call of get_outname(name)
call_get_outname ==
    /\ ~called
    /\ called' = TRUE
    /\ outname' = get_outname(name, config["pattern"])
    /\ UNCHANGED <<hostVars, fsVars, pc, local_filename, ffmpeg, outfile, err,
                   result, child, exitStatus, created, unlinks, printed,
                   invocations, name>>

\* the host delivers xfer_ended and enters xfer_ended_signal_cb
xfer_ended ==
    /\ pc \in {"idle", "done", "raised"}
    /\ invocations < MaxInvocations
    /\ \E dir \in {DownloadDir, LinkDir} :
          local_filename' = [dir |-> dir, name |-> srcName]
    /\ invocations' = invocations + 1
    /\ pc' = "get_ffmpeg"
    /\ ffmpeg' = ""
    /\ outfile' = NoPath
    /\ err' = "none"
    /\ result' = NoResult
    /\ child' = NoChild
    /\ exitStatus' = NoResult
    /\ created' = FALSE
    /\ unlinks' = 0
    /\ printed' = <<>>
    /\ UNCHANGED <<hostVars, fsVars, nameVars>>

\* lines 42-46
cb_get_ffmpeg ==
    /\ pc = "get_ffmpeg"
    /\ LET r == get_ffmpeg
       IN  IF r.err # "none"
           THEN /\ err' = r.err
                /\ printed' = Append(printed, "ffmpeg_not_found")
                /\ result' = 1
                /\ pc' = "done"
                /\ UNCHANGED ffmpeg
           ELSE /\ ffmpeg' = r.value
                /\ pc' = "fetch_outfile"
                /\ UNCHANGED <<err, printed, result>>
    /\ UNCHANGED <<hostVars, fsVars, nameVars, local_filename, outfile, child,
                   exitStatus, created, unlinks, invocations>>

\* lines 48-59
cb_fetch_outfile ==
    /\ pc = "fetch_outfile"
    /\ LET r == fetch_outfile(local_filename, srcKind, processed, writable,
                              config["pattern"])
       IN  /\ processed' = r.state
           /\ created' = r.created
           /\ err' = r.err
           /\ outfile' = r.outfile
           /\ IF r.err = "none"
              THEN /\ pc' = "debug"
                   /\ UNCHANGED <<printed, result>>
              ELSE IF r.err \in {"ValueError:not_a_file", "ValueError:not_mkv"}
              THEN /\ printed' = Append(printed, "outfile_fetch_error")
                   /\ result' = 1
                   /\ pc' = "done"
              ELSE \* not a ValueError: leaves the callback
                   /\ pc' = "raised"
                   /\ UNCHANGED <<printed, result>>
    /\ UNCHANGED <<hostVars, srcName, srcKind, writable, outputs, nameVars,
                   local_filename, ffmpeg, child, exitStatus, unlinks,
                   invocations>>

\* a debug test that lets the invocation continue
cb_debug_ignored ==
    /\ pc = "debug"
    /\ pc' = "do_ffmpeg"
    /\ UNCHANGED <<printed, result>>
    /\ UNCHANGED <<hostVars, fsVars, nameVars, local_filename, ffmpeg, outfile,
                   err, child, exitStatus, created, unlinks, invocations>>

\* lines 61-65
cb_debug ==
    /\ pc = "debug"
    /\ IF weechat_config_get_boolean("debug") # 0
       THEN /\ printed' = Append(printed, "paths")
            /\ result' = 0
            /\ pc' = "done"
       ELSE /\ pc' = "do_ffmpeg"
            /\ UNCHANGED <<printed, result>>
    /\ UNCHANGED <<hostVars, fsVars, nameVars, local_filename, ffmpeg, outfile,
                   err, child, exitStatus, created, unlinks, invocations>>

\* lines 67-68 and 131-144 up to the start of the child process
cb_do_ffmpeg ==
    /\ pc = "do_ffmpeg"
    /\ IF ffmpeg \in Executables
       THEN /\ child' = ffmpeg_args(ffmpeg, local_filename, outfile)
            /\ pc' = "running"
            /\ UNCHANGED err
       ELSE \* subprocess.call raises FileNotFoundError, which is not caught
            /\ err' = "FileNotFoundError"
            /\ pc' = "raised"
            /\ UNCHANGED child
    /\ UNCHANGED <<hostVars, fsVars, nameVars, local_filename, ffmpeg, outfile,
                   result, exitStatus, created, unlinks, printed, invocations>>

\* the ffmpeg process exits and subprocess.call returns its status
ffmpeg_exit ==
    /\ pc = "running"
    /\ \E status \in ExitStatuses :
          /\ (child.output.name \in outputs /\ ~HasFlag(child, "-y"))
                => status # 0
          /\ exitStatus' = status
          /\ outputs' = IF status = 0 THEN outputs \cup {child.output.name}
                        ELSE outputs
    /\ pc' = "finish"
    /\ UNCHANGED <<hostVars, srcName, srcKind, processed, writable, nameVars,
                   local_filename, ffmpeg, outfile, err, result, child,
                   created, unlinks, printed, invocations>>

\* a cleanup that deletes the source only after a successful remux
cb_finish_on_success ==
    /\ pc = "finish"
    /\ IF weechat_config_get_boolean("keep") = 0 /\ exitStatus = 0
       THEN /\ srcKind' = "missing"
            /\ unlinks' = unlinks + 1
            /\ printed' = printed \o <<"converted", "removed">>
       ELSE /\ printed' = Append(printed, "converted")
            /\ UNCHANGED <<srcKind, unlinks>>
    /\ result' = exitStatus
    /\ pc' = "done"
    /\ UNCHANGED <<hostVars, srcName, processed, writable, outputs, nameVars,
                   local_filename, ffmpeg, outfile, err, child, exitStatus,
                   created, invocations>>

\* a cleanup that ignores the keep option
cb_finish_always_unlink ==
    /\ pc = "finish"
    /\ srcKind' = "missing"
    /\ unlinks' = unlinks + 1
    /\ printed' = printed \o <<"converted", "removed">>
    /\ result' = exitStatus
    /\ pc' = "done"
    /\ UNCHANGED <<hostVars, srcName, processed, writable, outputs, nameVars,
                   local_filename, ffmpeg, outfile, err, child, exitStatus,
                   created, invocations>>

\* lines 73-79
cb_finish ==
    /\ pc = "finish"
    /\ IF weechat_config_get_boolean("keep") = 0
       THEN /\ srcKind' = "missing"
            /\ unlinks' = unlinks + 1
            /\ printed' = printed \o <<"converted", "removed">>
       ELSE /\ printed' = Append(printed, "converted")
            /\ UNCHANGED <<srcKind, unlinks>>
    /\ result' = exitStatus
    /\ pc' = "done"
    /\ UNCHANGED <<hostVars, srcName, processed, writable, outputs, nameVars,
                   local_filename, ffmpeg, outfile, err, child, exitStatus,
                   created, invocations>>

Next ==
    \/ xfer_ended
    \/ cb_get_ffmpeg
    \/ cb_fetch_outfile
    \/ cb_debug
    \/ cb_do_ffmpeg
    \/ ffmpeg_exit
    \/ cb_finish

Spec == Init /\ [][Next]_vars

NextName == call_get_outname

SpecName == InitName /\ [][NextName]_vars

(***************************************************************************)
(* Properties                                                              *)
(***************************************************************************)
DebugOn == weechat_config_get_boolean("debug") # 0
KeepOn == weechat_config_get_boolean("keep") # 0
ValidMkvInput == is_file(srcKind) /\ EndsWith(srcName, mkv)
Said(msg) == \E i \in 1..Len(printed) : printed[i] = msg

Forbidden == {"~", "$", "{", "}", "!", "?", "|", ":", " ", "\t", "\n", "\r"}
NoForbidden(s) == \A i \in 1..Len(s) : s[i] \notin Forbidden

\* s contains "[", one or more non-blank characters, "]"
HasGroupTag(s) ==
    \E i, j \in 1..Len(s) :
        /\ j >= i + 2
        /\ s[i] = "["
        /\ s[j] = "]"
        /\ \A k \in (i + 1)..(j - 1) : s[k] \notin {" ", "\t", "\n", "\r"}

\* C1 as stated, for an invocation that located ffmpeg and returned: with
\* debug on and a valid .mkv input, ../processed is not created, no ffmpeg
\* process is started, the source is not deleted and the status is 0.
C1_DebugTouchesNothing ==
    (pc = "done" /\ ffmpeg # "" /\ DebugOn /\ ValidMkvInput)
        => (~created /\ child = NoChild /\ unlinks = 0 /\ result = 0)

\* C1 amended: with debug on and a valid .mkv input no ffmpeg process is
\* started and the source is not deleted; an invocation that located ffmpeg
\* and returned has printed the paths and returned 0, and ../processed
\* exists then (fetch_outfile creates it before the debug test).
C1_DebugSkipsTranscode ==
    (DebugOn /\ ValidMkvInput)
        => /\ child = NoChild
           /\ unlinks = 0
           /\ (pc = "done" /\ ffmpeg # "")
                 => (result = 0 /\ Said("paths") /\ processed = "dir")

C1_Witness ==
    /\ pc = "done"
    /\ DebugOn
    /\ ValidMkvInput
    /\ created
    /\ result = 0

\* C2 as stated: whatever the pattern option, the name returned by
\* get_outname contains no forbidden character.
C2_NeverForbidden == called => NoForbidden(outname)

\* C2 amended: when the pattern option is empty, the name returned by
\* get_outname contains none of ~ $ { } ! ? | : and no blank.
C2_DefaultPatternNoForbidden ==
    (called /\ config["pattern"] = "") => NoForbidden(outname)

C2_Witness ==
    /\ called
    /\ config["pattern"] = ""
    /\ \E i, j \in 1..Len(name) : name[i] = " " /\ name[j] = "$"
    /\ Len(outname) > Len(mp4)

\* C3: whatever the pattern option, the name returned by get_outname contains
\* no "[" followed by one or more non-blank characters followed by "]".
C3_NoGroupTag == called => ~HasGroupTag(outname)

C3_Witness ==
    /\ called
    /\ config["pattern"] = "a"
    /\ HasGroupTag(name)
    /\ \E i \in 1..Len(outname) : outname[i] \in {"[", "]"}

\* C4 as stated: every path returned by fetch_outfile has a basename ending
\* in .mp4 and lies in the processed directory next to the resolved parent
\* of the input.
C4_OutfileIsMp4InProcessed ==
    outfile # NoPath
        => (EndsWith(outfile.name, mp4) /\ outfile.dir = ProcessedDir)

\* C5: when ffmpeg was run and keep is off, the returned callback has deleted
\* the source after the exit of ffmpeg, whatever the exit status, has printed
\* the completion message and returns the exit status.
C5_CleanupWhateverStatus ==
    /\ (pc = "done" /\ child # NoChild /\ ~KeepOn)
          => /\ unlinks = 1
             /\ srcKind = "missing"
             /\ Said("converted")
             /\ result = exitStatus
    /\ unlinks > 0 => exitStatus # NoResult

C5_Witness ==
    /\ pc = "done"
    /\ ~KeepOn
    /\ exitStatus = 1
    /\ srcKind = "missing"
    /\ result = 1

\* C6: fetch_outfile on a path that is not a file fails with the not-a-file
\* error, whether or not the name ends in .mkv, and creates no directory.
C6_NotAFileFirst ==
    [][(pc = "fetch_outfile" /\ ~is_file(srcKind))
          => /\ err' = "ValueError:not_a_file"
             /\ outfile' = NoPath
             /\ processed' = processed
             /\ ~created']_vars

C6_Witness ==
    /\ pc = "done"
    /\ err = "ValueError:not_a_file"
    /\ EndsWith(srcName, mkv)
    /\ processed = "missing"
    /\ writable

\* C7 as stated: with the default configuration get_outname of
\* My_Show_[GROUP]_-_S01E01.mkv is Show-S01E01.mp4.
C7_ExampleIsShow ==
    (called /\ name = ExampleName /\ config = DefaultConfig)
        => outname = <<"S", "h", "o", "w", "-", "S", "0", "1", "E", "0", "1",
                       ".", "m", "p", "4">>

\* C7 amended: with the default configuration get_outname of
\* My_Show_[GROUP]_-_S01E01.mkv is .mp4 (the only dot-separated chunk before
\* the extension is the first one, which is dropped).
C7_ExampleIsBareExtension ==
    (called /\ name = ExampleName /\ config = DefaultConfig)
        => outname = <<".", "m", "p", "4">>

C7_Witness == called /\ name = ExampleName /\ config = DefaultConfig

\* C8 as stated: whenever fetch_outfile fails (not a file, wrong extension,
\* or ../processed cannot be created) the callback reports the error and
\* returns 1 without starting ffmpeg and without deleting the source.
C8_FetchFailureReturnsOne ==
    err \in {"ValueError:not_a_file", "ValueError:not_mkv",
             "FileExistsError", "PermissionError"}
        => /\ pc = "done"
           /\ result = 1
           /\ Said("outfile_fetch_error")
           /\ child = NoChild
           /\ unlinks = 0

\* C9: once the ffmpeg process has been started, the directory of its output
\* path is ../processed and that directory exists.
C9_OutdirExistsAtStart ==
    child # NoChild
        => (child.output.dir = ProcessedDir /\ processed = "dir")

C9_Witness == pc = "running" /\ created /\ child.output.dir = ProcessedDir

\* C10: an invocation deletes the source at most once, only in the step that
\* follows the exit of the ffmpeg process it started, and never when keep is
\* on, ffmpeg was not located, fetch_outfile failed or debug is on.
C10_DeleteOnlyAfterExit ==
    /\ [](/\ unlinks <= 1
          /\ unlinks = 1
                => /\ child # NoChild
                   /\ exitStatus # NoResult
                   /\ ~KeepOn
                   /\ ~DebugOn
                   /\ ffmpeg # ""
                   /\ outfile # NoPath
                   /\ err = "none")
    /\ [][srcKind' # srcKind
             => /\ unlinks' = unlinks + 1
                /\ pc = "finish"
                /\ exitStatus \in ExitStatuses]_vars

C10_Witness == unlinks = 1 /\ srcKind = "missing" /\ exitStatus = 0

====
